---- MODULE Spec2Model ----
(***************************************************************************)
(* A model of src/src/main.rs: the Lexer, the Parser, the Statement nodes  *)
(* with their eval, and Program::new / Program::run.                       *)
(*                                                                         *)
(* A source text is a sequence of characters, each a one-character string. *)
(* A Rust String is modelled by a TLA+ string, built by concatenation as   *)
(* the code collects it.  A panic is modelled by a record carrying its     *)
(* message; it unwinds through every caller up to the action that made the *)
(* call, which then ends in pc = "panic".                                  *)
(***************************************************************************)
EXTENDS Naturals, Sequences, FiniteSets, TLC

VARIABLES
    input,      \* the &str given to Program::new / Lexer::new
    pc,         \* position of the control flow
    parser,     \* struct Parser {lexer, current_token, peek_token}
    program,    \* struct Program {statements}
    dot,        \* parse_dot's locals: token, ident
    block,      \* parse_block_statement's locals: token, statements
    ret,        \* who called parse_block_statement: "dot" or "run"
    statement,  \* Parser::run's local `statement`
    output,     \* the String returned by Program::run
    lex,        \* a Lexer driven directly, as tests::test_lexer does
    tokens,     \* the tokens that lexer has returned so far
    panic       \* the panic that ended the run, if any

vars == <<input, pc, parser, program, dot, block, ret, statement, output,
          lex, tokens, panic>>

----------------------------------------------------------------------------
(* Bounds of the model *)

\* longest source text enumerated character by character
MaxRaw == 3
\* most columns in a generated block
MaxCols == 2
\* most queries in a generated program
MaxQueries == 2
\* calls of next_token made on a directly driven lexer beyond one per character
ExtraCalls == 3

----------------------------------------------------------------------------
(* Token kinds, main.rs lines 25-30 *)

DOT == "DOT"
RBRACK == "RBRACK"
LBRACK == "LBRACK"
IDENT == "IDENT"
EOF == "EOF"

Token(kind, literal) == [kind |-> kind, literal |-> literal]

----------------------------------------------------------------------------
(* Characters *)

\* char::is_alphabetic on the characters the model uses; "é" is alphabetic
\* and takes two bytes in UTF-8
IsAlphabetic(c) == c \in {"a", "b", "c", "d", "i", "t", "u", "s", "e", "r",
                          "n", "m", "p", "o", "é"}

\* char::is_whitespace on the characters the model uses
IsWhitespace(c) == c \in {" ", "\n", "\t"}

\* the number of bytes of a character in a Rust String (UTF-8)
Utf8Len(c) == IF c = "é" THEN 2 ELSE 1

RECURSIVE ByteLen(_)
\* str::len: the length in bytes, not in characters
ByteLen(s) == IF s = <<>> THEN 0 ELSE Utf8Len(Head(s)) + ByteLen(Tail(s))

RECURSIVE Collect(_)
\* Iterator<char>::collect::<String>
Collect(s) == IF s = <<>> THEN "" ELSE Head(s) \o Collect(Tail(s))

Min(a, b) == IF a < b THEN a ELSE b

\* `let x = v; F(x)`: v is evaluated once and F applied to its value
With(v, F(_)) == CHOOSE r \in {F(x) : x \in {v}} : TRUE

----------------------------------------------------------------------------
(* Panics *)

Panic(msg, what) == [panic |-> msg, what |-> what]
IsPanic(x) == "panic" \in DOMAIN x

UnknownToken(what) == Panic("Unknown token", what)
UnwrapNone == Panic("called Option::unwrap() on a None value", "")

----------------------------------------------------------------------------
(* Lexer, main.rs lines 266-344 *)

\* position and read_position only grow, also at end of input.  The code
\* compares read_position with input.len() and indexes with it below that
\* length, so every value above the length behaves alike: the model keeps
\* the counters at most one above it.
Advance(n) == Min(n + 1, ByteLen(input) + 1)

\* Lexer::new: the first character, unwrapped
LexerNew ==
    IF input = <<>>
    THEN UnwrapNone
    ELSE [position |-> 0, read_position |-> 1, character |-> input[1]]

\* Lexer::read_char
ReadChar(l) ==
    IF l.read_position >= ByteLen(input)
    THEN [position |-> l.read_position,
          read_position |-> Advance(l.read_position),
          character |-> "0"]
    ELSE IF l.read_position >= Len(input)
    THEN UnwrapNone
    ELSE [position |-> l.read_position,
          read_position |-> Advance(l.read_position),
          character |-> input[l.read_position + 1]]

RECURSIVE SkipWhitespace(_)
\* Lexer::skip_whitespace
SkipWhitespace(l) ==
    IF IsPanic(l) THEN l
    ELSE IF IsWhitespace(l.character) THEN With(ReadChar(l), SkipWhitespace)
    ELSE l

RECURSIVE ReadWhileAlphabetic(_)
\* the while loop of Lexer::read_identifier
ReadWhileAlphabetic(l) ==
    IF IsPanic(l) THEN l
    ELSE IF IsAlphabetic(l.character) THEN With(ReadChar(l), ReadWhileAlphabetic)
    ELSE l

\* Lexer::read_identifier: the lexer after the scan and the characters
\* from the start position up to the position the scan stopped at
ReadIdentifier(l) ==
    LET position == l.position
        after == ReadWhileAlphabetic(l)
    IN  IF IsPanic(after) THEN after
        ELSE [lexer |-> after,
              literal |-> Collect(SubSeq(input, position + 1,
                                         Min(after.position, Len(input))))]

\* the end of Lexer::next_token: read_char, then return the token
ReadCharAndReturn(l, token) ==
    LET after == ReadChar(l)
    IN  IF IsPanic(after) THEN after
        ELSE [lexer |-> after, token |-> token]

\* Lexer::next_token: the lexer after the call and the token returned
NextToken(l) ==
    With(SkipWhitespace(l), LAMBDA s :
        IF IsPanic(s) THEN s
        ELSE CASE s.character = "." -> ReadCharAndReturn(s, Token(DOT, "."))
               [] s.character = "{" -> ReadCharAndReturn(s, Token(LBRACK, "{"))
               [] s.character = "}" -> ReadCharAndReturn(s, Token(RBRACK, "}"))
               [] s.character = "0" -> ReadCharAndReturn(s, Token(EOF, ""))
               [] OTHER ->
                    IF IsAlphabetic(s.character)
                    THEN With(ReadIdentifier(s), LAMBDA r :
                             IF IsPanic(r) THEN r
                             ELSE ReadCharAndReturn(r.lexer,
                                                    Token(IDENT, r.literal)))
                    ELSE UnknownToken(s.character))

----------------------------------------------------------------------------
(* Statement nodes and their eval, main.rs lines 61-161 *)

Unset == [unset |-> TRUE]

\* struct Identifier
Identifier(token) == [token |-> token, literal |-> token.literal]

\* struct PropertyStatement
PropertyStatement(token, ident) ==
    [type |-> "Property", token |-> token, ident |-> ident]

\* struct BlockStatement
BlockStatement(token, statements) ==
    [type |-> "Block", token |-> token, statements |-> statements]

\* struct DotStatement
DotStatement(token, ident, children) ==
    [type |-> "Dot", token |-> token, ident |-> ident, children |-> children]

RECURSIVE Join(_, _)
\* Vec<String>::join
Join(strings, sep) ==
    IF strings = <<>> THEN ""
    ELSE IF Len(strings) = 1 THEN strings[1]
    ELSE strings[1] \o sep \o Join(Tail(strings), sep)

RECURSIVE Concat(_)
\* Iterator<String>::collect::<String>
Concat(strings) ==
    IF strings = <<>> THEN "" ELSE Head(strings) \o Concat(Tail(strings))

\* PropertyStatement::eval
PropertyEval(s) == s.ident.literal

\* BlockStatement::eval with the separator of BlockStatement::string
BlockEvalStringSeparator(s) ==
    Join([i \in 1..Len(s.statements) |-> PropertyEval(s.statements[i])], ",")

\* BlockStatement::eval; its statements are PropertyStatements
BlockEval(s) ==
    Join([i \in 1..Len(s.statements) |-> PropertyEval(s.statements[i])], ", ")

\* DotStatement::eval; its children are BlockStatements
DotEval(s) ==
    LET columns == Concat([i \in 1..Len(s.children) |-> BlockEval(s.children[i])])
        table == s.ident.literal
    IN  IF columns = ""
        THEN "SELECT * FROM " \o s.ident.literal \o ";"
        ELSE "SELECT " \o columns \o " FROM " \o table \o ";"

\* Statement::eval, dispatched on the node's type
Eval(s) ==
    CASE s.type = "Dot" -> DotEval(s)
      [] s.type = "Block" -> BlockEval(s)
      [] s.type = "Property" -> PropertyEval(s)

\* Program::run
Run(p) == Join([i \in 1..Len(p.statements) |-> Eval(p.statements[i])], " ")

----------------------------------------------------------------------------
(* Parser, main.rs lines 163-252 *)

\* Parser::new
ParserNew ==
    With(LexerNew, LAMBDA lexer :
        IF IsPanic(lexer) THEN lexer
        ELSE With(NextToken(lexer), LAMBDA first :
            IF IsPanic(first) THEN first
            ELSE With(NextToken(first.lexer), LAMBDA second :
                IF IsPanic(second) THEN second
                ELSE [lexer |-> second.lexer,
                      current_token |-> first.token,
                      peek_token |-> second.token])))

\* Parser::next_token
ParserNextToken(p) ==
    With(NextToken(p.lexer), LAMBDA r :
        IF IsPanic(r) THEN r
        ELSE [lexer |-> r.lexer,
              current_token |-> p.peek_token,
              peek_token |-> r.token])

\* Parser::parse_identifier
ParseIdentifier(p) == Identifier(p.current_token)

\* Parser::parse_property_statement
ParsePropertyStatement(p) ==
    PropertyStatement(p.current_token, ParseIdentifier(p))

\* Vec::push in the loop of parse_block_statement.  At end of input the loop
\* never ends and the vector grows without bound; a block that is closed
\* holds at most one statement per character of the source, so the model
\* stops recording statements beyond that.
Push(statements, s) ==
    IF Len(statements) > Len(input) THEN statements ELSE Append(statements, s)

\* the run ends in a panic
Unwind(p) ==
    /\ pc' = "panic"
    /\ panic' = p

\* Program::new entered: Parser::new(input), then run() creates the Program
ProgramNew ==
    /\ pc = "start"
    /\ \E p \in {ParserNew} :
           IF IsPanic(p)
           THEN /\ Unwind(p)
                /\ UNCHANGED <<parser, program>>
           ELSE /\ parser' = p
                /\ program' = [statements |-> <<>>]
                /\ pc' = "run"
                /\ UNCHANGED panic
    /\ UNCHANGED <<input, dot, block, ret, statement, output, lex, tokens>>

\* Parser::run, the loop's exit: the current token is EOF
RunBreak ==
    /\ pc = "run"
    /\ parser.current_token.kind = EOF
    /\ pc' = "parsed"
    /\ UNCHANGED <<input, parser, program, dot, block, ret, statement, output,
                   lex, tokens, panic>>

\* Parser::run calls parse_statement, which dispatches on the current token
ParseStatement ==
    /\ pc = "run"
    /\ parser.current_token.kind # EOF
    /\ CASE parser.current_token.kind = "DOT" ->
              /\ pc' = "parse_dot"
              /\ UNCHANGED <<ret, panic>>
         [] parser.current_token.kind = "LBRACK" ->
              /\ pc' = "parse_block"
              /\ ret' = "run"
              /\ UNCHANGED panic
         [] OTHER ->
              /\ Unwind(UnknownToken(parser.current_token.kind))
              /\ UNCHANGED ret
    /\ UNCHANGED <<input, parser, program, dot, block, statement, output,
                   lex, tokens>>

\* Parser::parse_dot up to its call of parse_block_statement
ParseDot ==
    /\ pc = "parse_dot"
    /\ \E token \in {parser.current_token}, p \in {ParserNextToken(parser)} :
           IF IsPanic(p)
           THEN /\ Unwind(p)
                /\ UNCHANGED <<parser, dot, ret>>
           ELSE /\ parser' = p
                /\ dot' = [token |-> token, ident |-> ParseIdentifier(p)]
                /\ ret' = "dot"
                /\ pc' = "parse_block"
                /\ UNCHANGED panic
    /\ UNCHANGED <<input, program, block, statement, output, lex, tokens>>

\* Parser::parse_block_statement up to its loop
ParseBlockStatement ==
    /\ pc = "parse_block"
    /\ \E p1 \in {ParserNextToken(parser)} :
           IF IsPanic(p1)
           THEN /\ Unwind(p1)
                /\ UNCHANGED <<parser, block>>
           ELSE \E p2 \in {ParserNextToken(p1)} :
                    IF IsPanic(p2)
                    THEN /\ Unwind(p2)
                         /\ UNCHANGED <<parser, block>>
                    ELSE /\ parser' = p2
                         /\ block' = [token |-> p2.current_token,
                                       statements |-> <<>>]
                         /\ pc' = "block_loop"
                         /\ UNCHANGED panic
    /\ UNCHANGED <<input, program, dot, ret, statement, output, lex, tokens>>

\* the loop condition of parse_block_statement holds: enter the body
BlockLoop ==
    /\ pc = "block_loop"
    /\ parser.current_token.kind # "RBRACK"
    /\ pc' = "block_body"
    /\ UNCHANGED <<input, parser, program, dot, block, ret, statement, output,
                   lex, tokens, panic>>

\* the body of the loop of parse_block_statement
BlockBody ==
    /\ pc = "block_body"
    /\ \E s \in {ParsePropertyStatement(parser)}, p \in {ParserNextToken(parser)} :
           IF IsPanic(p)
           THEN /\ Unwind(p)
                /\ UNCHANGED <<parser, block>>
           ELSE /\ parser' = p
                /\ block' = [block EXCEPT !.statements = Push(@, s)]
                /\ pc' = "block_loop"
                /\ UNCHANGED panic
    /\ UNCHANGED <<input, program, dot, ret, statement, output, lex, tokens>>

\* the loop condition fails: the BlockStatement is returned,
\* to Parser::run or to parse_dot which wraps it in a DotStatement
BlockReturn ==
    /\ pc = "block_loop"
    /\ parser.current_token.kind = "RBRACK"
    /\ LET b == BlockStatement(block.token, block.statements)
       IN  statement' = IF ret = "dot"
                        THEN DotStatement(dot.token, dot.ident, <<b>>)
                        ELSE b
    /\ pc' = "push"
    /\ UNCHANGED <<input, parser, program, dot, block, ret, output, lex,
                   tokens, panic>>

\* Parser::run without its next_token after the push
RunPushNoNextToken ==
    /\ pc = "push"
    /\ program' = [program EXCEPT !.statements = Append(@, statement)]
    /\ pc' = "run"
    /\ UNCHANGED <<input, parser, dot, block, ret, statement, output, lex,
                   tokens, panic>>

\* Parser::run after parse_statement: push the statement, next_token
RunPush ==
    /\ pc = "push"
    /\ \E p \in {ParserNextToken(parser)} :
           IF IsPanic(p)
           THEN /\ Unwind(p)
                /\ UNCHANGED <<parser, program>>
           ELSE /\ parser' = p
                /\ program' = [program EXCEPT
                                 !.statements = Append(@, statement)]
                /\ pc' = "run"
                /\ UNCHANGED panic
    /\ UNCHANGED <<input, dot, block, ret, statement, output, lex, tokens>>

\* Program::run on the Program that Program::new returned
ProgramRun ==
    /\ pc = "parsed"
    /\ output' = Run(program)
    /\ pc' = "done"
    /\ UNCHANGED <<input, parser, program, dot, block, ret, statement, lex,
                   tokens, panic>>

----------------------------------------------------------------------------
(* A Lexer driven directly, as tests::test_lexer drives it *)

\* Lexer::new(input)
LexerCreate ==
    /\ pc = "start"
    /\ \E l \in {LexerNew} :
           IF IsPanic(l)
           THEN /\ Unwind(l)
                /\ UNCHANGED lex
           ELSE /\ lex' = l
                /\ pc' = "lexing"
                /\ UNCHANGED panic
    /\ UNCHANGED <<input, parser, program, dot, block, ret, statement, output,
                   tokens>>

\* one call of next_token on that lexer
LexerNextToken ==
    /\ pc = "lexing"
    /\ Len(tokens) < Len(input) + ExtraCalls
    /\ \E r \in {NextToken(lex)} :
           IF IsPanic(r)
           THEN /\ Unwind(r)
                /\ UNCHANGED <<lex, tokens>>
           ELSE /\ lex' = r.lexer
                /\ tokens' = Append(tokens, r.token)
                /\ UNCHANGED <<pc, panic>>
    /\ UNCHANGED <<input, parser, program, dot, block, ret, statement, output>>

----------------------------------------------------------------------------
(* Source texts *)

RECURSIVE Flatten(_)
Flatten(ss) == IF ss = <<>> THEN <<>> ELSE Head(ss) \o Flatten(Tail(ss))

SeqsUpTo(S, n) == UNION {[1..k -> S] : k \in 0..n}

\* every text of at most MaxRaw characters over these characters
RawChars == {".", "{", "}", ",", " ", "a", "0", "1", "é"}
RawSources == SeqsUpTo(RawChars, MaxRaw)

Tables == {<<"t">>, <<"u", "s", "e", "r", "s">>}
Names == {<<"a">>, <<"i", "d">>}
WsSeps == {<<" ">>, <<"\n", "\t">>}
CommaSeps == {<<",">>, <<",", " ">>, <<" ", ",">>, <<" ", ",", " ">>,
              <<",", "\n", " ">>}
Gaps == {<<>>} \cup WsSeps

\* c1 sep c2 sep ... cn
RenderCols(cols, sep) ==
    Flatten([i \in 1..Len(cols) |-> IF i = 1 THEN cols[i] ELSE sep \o cols[i]])

\* { c1 sep c2 ... cn }: `open` follows the brace, `ws` precedes the closing one
RenderBlock(cols, sep, open, ws) ==
    <<"{">> \o open \o RenderCols(cols, sep)
            \o (IF cols = <<>> THEN <<>> ELSE ws) \o <<"}">>

\* the descriptor of a query: .table ws { open c1 sep c2 ... cn ws }
QueryDesc(table, cols, sep, open, ws) ==
    [table |-> table, cols |-> cols, sep |-> sep, open |-> open, ws |-> ws]

Render(q) ==
    <<".">> \o q.table \o q.ws \o RenderBlock(q.cols, q.sep, q.open, q.ws)

ColSeqs == SeqsUpTo(Names, MaxCols)

\* queries whose tokens are separated by whitespace only
WsQueries ==
    {QueryDesc(t, cs, s, o, w) :
        t \in Tables, cs \in ColSeqs, s \in WsSeps, o \in Gaps, w \in WsSeps}

\* queries whose columns are separated by a comma, with or without
\* whitespace around it
CommaQueries ==
    {QueryDesc(t, cs, s, o, w) :
        t \in Tables, cs \in ColSeqs \ {<<>>}, s \in CommaSeps, o \in Gaps,
        w \in WsSeps}

\* queries with no whitespace between a name and the brace that follows it
TightQueries ==
    {QueryDesc(t, cs, s, <<>>, <<>>) :
        t \in Tables, cs \in ColSeqs, s \in WsSeps \cup {<<",">>}}

\* a block left open: .table ws { open c1 ws c2 ... cn trail
RenderUnterminated(q, trail) ==
    <<".">> \o q.table \o q.ws \o <<"{">> \o q.open
            \o RenderCols(q.cols, q.sep) \o trail

UnterminatedSources ==
    {RenderUnterminated(q, trail) : q \in WsQueries, trail \in Gaps}

\* a block with no table before it
BareBlocks ==
    {QueryDesc(<<>>, cs, s, o, w) :
        cs \in ColSeqs, s \in WsSeps, o \in WsSeps, w \in WsSeps}

RenderBare(b) == RenderBlock(b.cols, b.sep, b.open, b.ws)

\* programs of several queries written one after another
ProgramQueries ==
    {QueryDesc(t, cs, <<" ">>, <<>>, <<" ">>) :
        t \in Tables,
        cs \in {<<>>, << <<"a">> >>, << <<"a">>, <<"i", "d">> >>}}

ProgramDescs ==
    UNION {[queries : [1..k -> ProgramQueries], gap : Gaps] : k \in 1..MaxQueries}

RenderProgram(p) ==
    Flatten([i \in 1..Len(p.queries) |->
                IF i = 1 THEN Render(p.queries[i])
                ELSE p.gap \o Render(p.queries[i])])

\* the texts of main (line 20), tests::test_run (lines 461-467) and
\* tests::test_lexer (lines 379-384); every four spaces of their
\* indentation are written as one
MainInput == <<".", "u", "s", "e", "r", "s", " ", "{", "}">>
Indent8 == <<" ", " ">>
Indent12 == <<" ", " ", " ">>
Indent16 == <<" ", " ", " ", " ">>
TestRunInput ==
    <<".", "u", "s", "e", "r", "s", " ", "{", "\n">>
        \o Indent12 \o <<"n", "a", "m", "e", ",", "\n">>
        \o Indent12 \o <<"i", "d", "\n">>
        \o Indent8 \o <<"}">>
TestLexerInput ==
    <<"\n">> \o Indent12 \o <<".", "u", "s", "e", "r", "s", " ", "{", "\n">>
        \o Indent16 \o <<"n", "a", "m", "e", ",", "\n">>
        \o Indent16 \o <<"i", "d", "\n">>
        \o Indent12 \o <<"}", "\n">> \o Indent12

\* further texts: a name directly before the closing brace, digits in a
\* block, a digit 0 after a query
TightInput == <<".", "t", "{", "a", "b", "c", "}">>
DigitsInput == <<".", "u", "s", "e", "r", "s", " ", "{", " ", "1", "2", "3",
                 " ", "}">>
ZeroInput == <<".", "t", " ", "{", "}", " ", "0">>
ZeroColumnInput == <<".", "t", " ", "{", " ", "a", " ", "0", " ", "}">>

Sources ==
    RawSources
      \cup {Render(q) : q \in WsQueries \cup CommaQueries \cup TightQueries}
      \cup UnterminatedSources
      \cup {RenderBare(b) : b \in BareBlocks}
      \cup {RenderProgram(p) : p \in ProgramDescs}
      \cup {MainInput, TestRunInput, TestLexerInput, TightInput, DigitsInput,
            ZeroInput, ZeroColumnInput}

----------------------------------------------------------------------------
(* Specifications *)

Init ==
    /\ input \in Sources
    /\ pc = "start"
    /\ parser = Unset
    /\ program = Unset
    /\ dot = Unset
    /\ block = Unset
    /\ ret = ""
    /\ statement = Unset
    /\ output = ""
    /\ lex = Unset
    /\ tokens = <<>>
    /\ panic = Unset

\* Program::new(input).run(), as main and tests::test_run call it
Next ==
    \/ ProgramNew
    \/ RunBreak
    \/ ParseStatement
    \/ ParseDot
    \/ ParseBlockStatement
    \/ BlockLoop
    \/ BlockBody
    \/ BlockReturn
    \/ RunPush
    \/ ProgramRun

Spec == Init /\ [][Next]_vars

\* the program is one thread: a step that can be taken is taken
FairSpec == Spec /\ WF_vars(Next)

\* Lexer::new(input), then next_token again and again
LexNext ==
    \/ LexerCreate
    \/ LexerNextToken

LexSpec == Init /\ [][LexNext]_vars

----------------------------------------------------------------------------
(* What the properties below speak of *)

RECURSIVE Text(_)
\* a sequence of characters as a string
Text(chars) == IF chars = <<>> THEN "" ELSE Head(chars) \o Text(Tail(chars))

RECURSIVE Separated(_, _)
\* the strings with sep between neighbours
Separated(strings, sep) ==
    IF strings = <<>> THEN ""
    ELSE IF Len(strings) = 1 THEN strings[1]
    ELSE strings[1] \o sep \o Separated(Tail(strings), sep)

ColumnList(cols) == Separated([i \in 1..Len(cols) |-> Text(cols[i])], ", ")

\* the SQL the specification gives for a query
ExpectedSelect(q) ==
    IF q.cols = <<>>
    THEN "SELECT * FROM " \o Text(q.table) \o ";"
    ELSE "SELECT " \o ColumnList(q.cols) \o " FROM " \o Text(q.table) \o ";"

Finished == pc \in {"parsed", "done", "panic"}

WsCases == {[src |-> Render(q), sql |-> ExpectedSelect(q)] : q \in WsQueries}

CommaCases == {[src |-> Render(q), sql |-> ExpectedSelect(q)] : q \in CommaQueries}

ProgramCases ==
    {[src |-> RenderProgram(p),
      tables |-> [i \in 1..Len(p.queries) |-> Text(p.queries[i].table)],
      sql |-> Separated([i \in 1..Len(p.queries) |->
                            ExpectedSelect(p.queries[i])], " ")] :
        p \in ProgramDescs}

BareCases ==
    {[src |-> RenderBare(b),
      names |-> [i \in 1..Len(b.cols) |-> Text(b.cols[i])],
      sql |-> ColumnList(b.cols)] : b \in BareBlocks}

\* C1: a query `.T { c1 c2 ... cn }` whose tokens are separated by
\* whitespace compiles without a panic, its block never runs into the end of
\* input, and run() returns exactly "SELECT * FROM T;" when n = 0 and
\* "SELECT c1, c2, ..., cn FROM T;" otherwise: the columns in source order,
\* joined by ", ", duplicates kept.
C1_WhitespaceQuerySelect ==
    \A c \in WsCases :
        input = c.src =>
            /\ pc # "panic"
            /\ pc \in {"block_loop", "block_body"} =>
                   parser.current_token.kind \in {IDENT, RBRACK}
            /\ pc = "done" => output = c.sql

\* a query with a column written twice has been compiled and evaluated
C1_Witness ==
    /\ input = Render(QueryDesc(<<"t">>, << <<"i", "d">>, <<"i", "d">> >>,
                                <<" ">>, <<" ">>, <<" ">>))
    /\ pc = "done"
    /\ output = "SELECT id, id FROM t;"

\* C2: a query whose columns are separated by a comma, with any whitespace
\* before or after the comma, compiles to the SQL of the query whose columns
\* are separated by whitespace only.
C2_CommaSeparatedSelect ==
    \A c \in CommaCases :
        input = c.src =>
            /\ pc # "panic"
            /\ pc = "done" => output = c.sql

\* C3: for k >= 1 queries written one after another, the parser is at the
\* `.` of the next query (or at the end of input after the last) whenever it
\* is back in the loop of Parser::run, the program holds the k queries in
\* source order, and run() is their SQL joined by one space.
C3_QueriesJoinedBySpace ==
    \A c \in ProgramCases :
        input = c.src =>
            /\ pc # "panic"
            /\ pc = "run" =>
                   /\ Len(program.statements) <= Len(c.tables)
                   /\ parser.current_token.kind =
                          IF Len(program.statements) < Len(c.tables)
                          THEN DOT ELSE EOF
            /\ pc \in {"parsed", "done"} =>
                   /\ Len(program.statements) = Len(c.tables)
                   /\ \A i \in 1..Len(c.tables) :
                          /\ program.statements[i].type = "Dot"
                          /\ program.statements[i].ident.literal = c.tables[i]
            /\ pc = "done" => output = c.sql

\* two queries, written one directly after the other, have been evaluated
C3_Witness ==
    /\ input = <<".", "u", "s", "e", "r", "s", " ", "{", "}",
                 ".", "t", " ", "{", "a", " ", "i", "d", " ", "}">>
    /\ pc = "done"
    /\ Len(program.statements) = 2
    /\ output = "SELECT * FROM users; SELECT a, id FROM t;"

\* C4: when the end-of-input token is the current token inside the loop of
\* parse_block_statement of an unterminated block, the next step ends the
\* compilation with an error.
C4_UnterminatedBlockIsError ==
    [][(/\ input \in UnterminatedSources
        /\ pc = "block_loop"
        /\ parser.current_token.kind = EOF) => pc' = "panic"]_vars

\* a character that is neither whitespace, `.`, `{`, `}`, a comma nor
\* alphabetic
Unrecognized(c) ==
    /\ ~IsWhitespace(c)
    /\ c \notin {".", "{", "}", ","}
    /\ ~IsAlphabetic(c)

\* the cursor of the directly driven lexer, once whitespace is skipped,
\* is on an unrecognized character of the source
CursorOnUnrecognized ==
    /\ pc = "lexing"
    /\ LET s == SkipWhitespace(lex)
       IN  /\ ~IsPanic(s)
           /\ s.position < Len(input)
           /\ Unrecognized(input[s.position + 1])

\* C5: a call of next_token that finds the cursor on an unrecognized
\* character returns no token: it ends in the error naming that character.
C5_UnrecognizedCharIsLexError ==
    [][(CursorOnUnrecognized /\ Len(tokens) < Len(input) + ExtraCalls) =>
          /\ pc' = "panic"
          /\ tokens' = tokens
          /\ panic' = UnknownToken(SkipWhitespace(lex).character)]_vars

\* C6: once next_token has returned EOF, the next call returns EOF too.
C6_EofIsIdempotent ==
    [][(/\ pc = "lexing"
        /\ tokens # <<>>
        /\ tokens[Len(tokens)].kind = EOF) =>
          /\ pc' = "lexing"
          /\ tokens'[Len(tokens')].kind = EOF]_vars

\* C7: Program::new eventually finishes, with a Program or with an error.
C7_CompilationTerminates == <>Finished

RECURSIVE AllWhitespace(_)
AllWhitespace(chars) ==
    chars = <<>> \/ (IsWhitespace(Head(chars)) /\ AllWhitespace(Tail(chars)))

\* C8: a source that is empty or made of whitespace only compiles to a
\* Program of zero statements, and run() returns "".
C8_EmptyProgramIsEmptyString ==
    AllWhitespace(input) =>
        /\ pc # "panic"
        /\ pc \in {"parsed", "done"} => program.statements = <<>>
        /\ pc = "done" => output = ""

IsStructural(c) == c \in {".", "{", "}"}
IsStructuralToken(t) == t.kind \in {DOT, LBRACK, RBRACK}

\* C9: the `.`, `{` and `}` tokens returned so far are, in order, the `.`,
\* `{` and `}` characters of the part of the source the lexer has moved past.
C9_NoStructuralCharSwallowed ==
    pc = "lexing" =>
        LET emitted == SelectSeq(tokens, IsStructuralToken)
            passed == SubSeq(input, 1, Min(lex.position, Len(input)))
        IN  [i \in 1..Len(emitted) |-> emitted[i].literal]
                = SelectSeq(passed, IsStructural)

\* C10: a source `{ c1 c2 ... cn }` compiles to one Block statement holding
\* c1..cn in source order, and run() returns "c1, c2, ..., cn".
C10_BareBlockColumnList ==
    \A c \in BareCases :
        input = c.src =>
            /\ pc # "panic"
            /\ pc \in {"block_loop", "block_body"} =>
                   parser.current_token.kind \in {IDENT, RBRACK}
            /\ pc \in {"parsed", "done"} =>
                   /\ Len(program.statements) = 1
                   /\ program.statements[1].type = "Block"
                   /\ [i \in 1..Len(program.statements[1].statements) |->
                          program.statements[1].statements[i].ident.literal]
                        = c.names
            /\ pc = "done" => output = c.sql

====
